---- MODULE Spec2Model ----
(***************************************************************************)
(* A model of dnd.js, the source/target wrapper over HTML5 drag-and-drop.  *)
(*                                                                         *)
(* The page is a set of elements; createSource / createTarget build        *)
(* descriptors and attach listeners; the platform then delivers drag       *)
(* events to the listeners, one handler running to completion at a time.   *)
(* The registry `current` is the module-level object of the source.        *)
(*                                                                         *)
(* JavaScript values are tagged records [t |-> type, v |-> value]; text    *)
(* that the code takes apart (effect names) is a sequence of characters.   *)
(* Host callbacks are assumed to return normally.                          *)
(***************************************************************************)
EXTENDS Integers, Sequences, FiniteSets, TLC

VARIABLES
  current,    \* the registry: [source, element], "null" when empty
  dsOf,       \* source descriptors by identity, NoDesc before construction
  dtOf,       \* target descriptors by identity, NoDesc before construction
  draggable,  \* elements whose draggable attribute is "true"
  listeners,  \* attached listeners: <<element, event type, descriptor>>
  transfer,   \* the platform's data transfer carrier of the running gesture
  last,       \* history: the operation that ran last and what it did
  gesture,    \* history: the shape of the event sequence since the last dragstart
  encIn,      \* the effect encoder's input under test
  encOut      \* the effect encoder's outcome on encIn, NotRun before the call

vars == <<current, dsOf, dtOf, draggable, listeners, transfer, last, gesture,
          encIn, encOut>>

-----------------------------------------------------------------------------
(* Bounds *)

\* longest effects array handed to the encoder
MaxLen == 3

\* callback invocations of one gesture are counted up to here
MaxCount == 3

\* dragover events of one gesture are counted up to here
MaxOver == 2

-----------------------------------------------------------------------------
(* JavaScript values *)

Undefined == [t |-> "undefined"]
Null == [t |-> "null"]
Str(s) == [t |-> "string", v |-> s]
Num(n) == [t |-> "number", v |-> n]
Bool(b) == [t |-> "boolean", v |-> b]
Arr(a) == [t |-> "array", v |-> a]
Fn(name) == [t |-> "function", v |-> name]

\* typeof x
TypeOf(x) ==
  CASE x.t = "undefined" -> "undefined"
    [] x.t = "string" -> "string"
    [] x.t = "number" -> "number"
    [] x.t = "boolean" -> "boolean"
    [] x.t = "function" -> "function"
    [] OTHER -> "object"

\* !x
Falsy(x) ==
  \/ x.t \in {"undefined", "null"}
  \/ x.t = "string" /\ x.v = <<>>
  \/ x.t = "number" /\ x.v = 0
  \/ x.t = "boolean" /\ ~x.v

\* a || b
OrElse(a, b) == IF Falsy(a) THEN b ELSE a

\* the outcome of a call: a returned value or a thrown error
Return(x) == [threw |-> "none", val |-> x]
Throw(e) == [threw |-> e, val |-> Undefined]

-----------------------------------------------------------------------------
(* Text *)

move == <<"m", "o", "v", "e">>
copy == <<"c", "o", "p", "y">>
link == <<"l", "i", "n", "k">>
none == <<"n", "o", "n", "e">>
all == <<"a", "l", "l">>
bogus == <<"b", "o", "g", "u", "s">>

Lower == <<"a", "b", "c", "d", "e", "f", "g", "h", "i", "j", "k", "l", "m",
           "n", "o", "p", "q", "r", "s", "t", "u", "v", "w", "x", "y", "z">>
Upper == <<"A", "B", "C", "D", "E", "F", "G", "H", "I", "J", "K", "L", "M",
           "N", "O", "P", "Q", "R", "S", "T", "U", "V", "W", "X", "Y", "Z">>

\* the code units in ascending order: upper case sorts before lower case
CodeUnits == <<",">> \o Upper \o Lower

CodeUnit(ch) == CHOOSE i \in 1..Len(CodeUnits) : CodeUnits[i] = ch

\* String.prototype.toUpperCase on one character
ToUpperCase(ch) ==
  IF \E i \in 1..Len(Lower) : Lower[i] = ch
  THEN Upper[CHOOSE i \in 1..Len(Lower) : Lower[i] = ch]
  ELSE ch

\* a < b in the order of Array.prototype.sort's default comparison
RECURSIVE StrLess(_, _)
StrLess(a, b) ==
  IF b = <<>> THEN FALSE
  ELSE IF a = <<>> THEN TRUE
  ELSE IF Head(a) = Head(b) THEN StrLess(Tail(a), Tail(b))
  ELSE CodeUnit(Head(a)) < CodeUnit(Head(b))

\* x inserted into the sorted sequence s of strings
RECURSIVE Insert(_, _)
Insert(x, s) ==
  IF s = <<>> THEN <<x>>
  ELSE IF StrLess(x.v, Head(s).v) THEN <<x>> \o s
  ELSE <<Head(s)>> \o Insert(x, Tail(s))

\* Array.prototype.sort() on an array of strings
RECURSIVE sort(_)
sort(a) == IF a = <<>> THEN <<>> ELSE Insert(Head(a), sort(Tail(a)))

\* Array.prototype.join(",") on an array of strings
RECURSIVE join(_)
join(a) ==
  IF a = <<>> THEN <<>>
  ELSE IF Len(a) = 1 THEN Head(a).v
  ELSE Head(a).v \o <<",">> \o join(Tail(a))

\* the text of a value in a string concatenation
TextOf(x) == IF x.t = "array" THEN join(x.v) ELSE x.v

-----------------------------------------------------------------------------
(* The effect encoder *)

\* camelCase(first, second): second appended to first with its first
\* character in upper case; reading charAt of a non-string faults.
camelCase(first, second) ==
  IF Falsy(first) THEN Return(second)
  ELSE IF second.t # "string" THEN Throw("TypeError")
  ELSE IF second.v = <<>> THEN Return(Str(TextOf(first)))
  ELSE Return(Str(TextOf(first) \o <<ToUpperCase(Head(second.v))>>
                  \o Tail(second.v)))

\* effects.reduce(cb) where cb is the outcome of evaluating the argument
\* camelCase(effects): the argument is evaluated first and its fault
\* propagates; a value that is no function makes reduce itself fault.
reduce(effects, cb) ==
  IF cb.threw # "none" THEN cb ELSE Throw("TypeError")

\* the switch on effects.length
effectSwitch(effects) ==
  CASE Len(effects.v) = 0 -> Return(Str(none))
    [] Len(effects.v) = 1 -> Return(effects.v[1])
    [] Len(effects.v) = 3 -> Return(Str(all))
    [] OTHER -> LET sorted == Arr(sort(effects.v))
                IN reduce(sorted, camelCase(sorted, Undefined))

createEffectString(effects) ==
  IF Falsy(effects) THEN effectSwitch(Arr(<<>>))
  ELSE IF TypeOf(effects) = "string" THEN effectSwitch(Arr(<<effects>>))
  ELSE Throw("Error")

-----------------------------------------------------------------------------
(* The page: elements, descriptors, the transfer carrier *)

text == <<"t", "e", "x", "t">>
custom == <<"c", "u", "s", "t", "o", "m">>
hello == <<"h", "e", "l", "l", "o">>
uninitialized == <<"u", "n", "i", "n", "i", "t", "i", "a", "l", "i", "z", "e", "d">>

SrcElems == {"s1", "s2", "s3"}
TgtElems == {"t1", "t2"}
SourceIds == {"A", "B"}
TargetIds == {"T"}

\* a slot whose descriptor has not been constructed
NoDesc == [t |-> "absent"]

\* var current = { source: null, element: null }
Idle == [source |-> "null", element |-> "null"]

\* a {type, value} data item
Item(type, value) == [t |-> "object", type |-> type, value |-> value]

\* an element used as drag image, with its x and y properties
View(id, x, y) == [t |-> "element", v |-> id, x |-> x, y |-> y]

\* an element of the page
Elem(id) == [t |-> "element", v |-> id]

\* the carrier the platform hands to a dragstart event: an empty data store
FreshTransfer ==
  [effectAllowed |-> uninitialized, dropEffect |-> none, items |-> <<>>,
   dragImage |-> Null]

\* a setData keeping the value already stored under a type
setDataKeepFirst(tr, type, value) ==
  IF \E i \in 1..Len(tr.items) : tr.items[i].type = type
  THEN tr
  ELSE [tr EXCEPT !.items = Append(tr.items, [type |-> type, value |-> value])]

\* dataTransfer.setData(type, value): one value per type, types in the order
\* of their first write
setData(tr, type, value) ==
  IF \E i \in 1..Len(tr.items) : tr.items[i].type = type
  THEN [tr EXCEPT !.items =
          [i \in 1..Len(tr.items) |->
             IF tr.items[i].type = type
             THEN [type |-> type, value |-> value] ELSE tr.items[i]]]
  ELSE [tr EXCEPT !.items = Append(tr.items, [type |-> type, value |-> value])]

\* dataTransfer.types
types(tr) == [i \in 1..Len(tr.items) |-> tr.items[i].type]

\* dataTransfer.getData(type): the empty string for a type not stored
getData(tr, type) ==
  IF \E i \in 1..Len(tr.items) : tr.items[i].type = type
  THEN tr.items[CHOOSE i \in 1..Len(tr.items) : tr.items[i].type = type].value
  ELSE <<>>

\* src instanceof Array ? src : [src]
asArray(x) == IF x.t = "array" THEN x.v ELSE <<x>>

\* the elements of a sequence
Range(s) == {s[i] : i \in 1..Len(s)}

\* checkOptions(options): the empty function
checkOptions(options) == Return(Undefined)

createDataArray(data) ==
  IF TypeOf(data) = "undefined" THEN <<>> ELSE asArray(data)

\* the body of ds.data.forEach in setSourceProperties, from item i on
RECURSIVE setDataItems(_, _, _)
setDataItems(tr, data, i) ==
  IF i > Len(data) THEN [tr |-> tr, threw |-> "none"]
  ELSE LET d == data[i]
       IN IF TypeOf(d) = "string"
          THEN setDataItems(setData(tr, text, d.v), data, i + 1)
          \* reading d.type of null or undefined
          ELSE IF d.t \in {"null", "undefined"}
          THEN [tr |-> tr, threw |-> "TypeError"]
          ELSE setDataItems(setData(tr, d.type, d.value), data, i + 1)

setSourceProperties(ds, tr) ==
  LET t1 == [tr EXCEPT !.effectAllowed = ds.effects.v]
      t2 == IF Falsy(ds.view) THEN t1
            ELSE [t1 EXCEPT !.dragImage =
                    [t |-> "image", el |-> ds.view.v,
                     x |-> OrElse(ds.view.x, Num(0)).v,
                     y |-> OrElse(ds.view.y, Num(0)).v]]
  IN setDataItems(t2, ds.data, 1)

\* setTargetProperties(dt, data): the empty function
setTargetProperties(dt, tr) == tr

\* one invocation of a host callback, with the registry as the callback sees it
Call(fn, cb, of, args, reg) ==
  [fn |-> fn, cb |-> cb, of |-> of, args |-> args, reg |-> reg]

\* the history record of one operation
Ran(op, who, elem, arg, before, calls, prevented, threw) ==
  [op |-> op, who |-> who, elem |-> elem, arg |-> arg, before |-> before,
   calls |-> calls, prevented |-> prevented, threw |-> threw]

NotRun == [threw |-> "notrun", val |-> Undefined]

-----------------------------------------------------------------------------
(* Construction *)

\* the gesture history: the source and element of the last dragstart and the
\* shape of the event sequence since: S a start and then only enter, over and
\* leave events; SD such a sequence, one drop, and again only enter, over and
\* leave; SE and SDE the two closed by the dragend of the started element;
\* I a start of another source (over) while the gesture of shape S of a first
\* one was open, and then the dragend of the first one's element; IE that
\* closed by the dragend of the second one's element; X any other sequence;
\* none before the first dragstart.  SE, SDE and IE hold in the state the
\* closing dragend leaves, and give way to X with the next operation.
\* drops and cancels count the onDrop and onCancel invocations since the start,
\* overs the dragover events since the start and suppressed those of them
\* whose listener called preventDefault.
NoGesture ==
  [src |-> "null", elem |-> "null", shape |-> "none", drops |-> 0,
   cancels |-> 0, over |-> Idle, overs |-> 0, suppressed |-> 0]
Broken ==
  [src |-> "null", elem |-> "null", shape |-> "X", drops |-> 0,
   cancels |-> 0, over |-> Idle, overs |-> 0, suppressed |-> 0]

NoEvent(g) == IF g.shape \in {"SE", "SDE", "IE"} THEN Broken ELSE g
AfterStart(g, ds, e) ==
  [src |-> ds, elem |-> e, shape |-> "S", drops |-> 0, cancels |-> 0,
   overs |-> 0, suppressed |-> 0,
   over |-> IF g.shape = "S" /\ g.src # ds /\ g.over = Idle
            THEN [source |-> g.src, element |-> g.elem] ELSE Idle]
AfterHover(g) == IF g.shape \in {"none", "S", "SD"} THEN g ELSE Broken
AfterDrop(g) ==
  CASE g.shape = "none" -> g
    [] g.shape = "S" -> [g EXCEPT !.shape = "SD"]
    [] OTHER -> Broken
AfterEnd(g, ds, e) ==
  CASE g.shape = "none" -> g
    [] g.shape = "S" /\ g.src = ds /\ g.elem = e -> [g EXCEPT !.shape = "SE"]
    [] g.shape = "SD" /\ g.src = ds /\ g.elem = e -> [g EXCEPT !.shape = "SDE"]
    [] g.shape = "S" /\ g.over = [source |-> ds, element |-> e] ->
         [g EXCEPT !.shape = "I"]
    [] g.shape = "I" /\ g.src = ds /\ g.elem = e -> [g EXCEPT !.shape = "IE"]
    [] OTHER -> Broken

\* makeDraggable marking only the first wrapped element
makeDraggableFirst(ds, drg) == drg \cup {ds.sources[1].v}

\* makeDraggable(ds): the elements whose draggable attribute is "true" afterwards
makeDraggable(ds, drg) == drg \cup {e.v : e \in Range(ds.sources)}

\* setupSourceEvents(ds): the listeners attached afterwards
setupSourceEvents(ds, id, lst) ==
  lst \cup {<<e.v, type, id>> : e \in Range(ds.sources),
                                type \in {"dragstart", "dragend"}}

\* a setupTargetEvents attaching the dragleave listener only when the
\* descriptor has an onLeave callback at construction
setupTargetEventsConfigured(dt, id, lst) ==
  lst \cup {<<e.v, type, id>> : e \in Range(dt.targets),
             type \in {"dragenter", "dragover", "drop"}
                      \cup (IF Falsy(dt.onLeave) THEN {} ELSE {"dragleave"})}

\* setupTargetEvents(dt): the listeners attached afterwards
setupTargetEvents(dt, id, lst) ==
  lst \cup {<<e.v, type, id>> : e \in Range(dt.targets),
             type \in {"dragenter", "dragleave", "dragover", "drop"}}

\* createSource marking the elements draggable before it encodes the effects
CreateSourceEager(id, src, options) ==
  /\ dsOf[id] = NoDesc
  /\ LET eff == createEffectString(options.effects)
         that == [t |-> "source",
                  sources |-> asArray(src),
                  effects |-> eff.val,
                  data |-> createDataArray(options.data),
                  view |-> OrElse(options.view, Null),
                  onStart |-> OrElse(options.onStart, Null),
                  onCancel |-> OrElse(options.onCancel, Null),
                  onDrop |-> OrElse(options.onDrop, Null)]
     IN /\ draggable' = makeDraggable(that, draggable)
        /\ IF eff.threw # "none"
           THEN UNCHANGED <<dsOf, listeners>>
           ELSE /\ dsOf' = [dsOf EXCEPT ![id] = that]
                /\ listeners' = setupSourceEvents(that, id, listeners)
        /\ last' = Ran("createSource", id, "-",
                       [src |-> src, options |-> options],
                       current, <<>>, FALSE, eff.threw)
  /\ gesture' = NoEvent(gesture)
  /\ UNCHANGED <<current, dtOf, transfer, encIn, encOut>>

\* exports.createSource(src, options), constructing the descriptor id
CreateSource(id, src, options) ==
  /\ dsOf[id] = NoDesc
  /\ LET chk == checkOptions(options)
         eff == createEffectString(options.effects)
         that == [t |-> "source",
                  sources |-> asArray(src),
                  effects |-> eff.val,
                  data |-> createDataArray(options.data),
                  view |-> OrElse(options.view, Null),
                  onStart |-> OrElse(options.onStart, Null),
                  onCancel |-> OrElse(options.onCancel, Null),
                  onDrop |-> OrElse(options.onDrop, Null)]
         threw == IF chk.threw # "none" THEN chk.threw ELSE eff.threw
     IN IF threw # "none"
        THEN /\ UNCHANGED <<dsOf, draggable, listeners>>
             /\ last' = Ran("createSource", id, "-", [src |-> src, options |-> options],
                          current, <<>>, FALSE, threw)
        ELSE /\ dsOf' = [dsOf EXCEPT ![id] = that]
             /\ draggable' = makeDraggable(that, draggable)
             /\ listeners' = setupSourceEvents(that, id, listeners)
             /\ last' = Ran("createSource", id, "-", [src |-> src, options |-> options],
                          current, <<>>, FALSE, "none")
  /\ gesture' = NoEvent(gesture)
  /\ UNCHANGED <<current, dtOf, transfer, encIn, encOut>>

\* exports.createTarget(elmts, options), constructing the descriptor id
CreateTarget(id, elmts, options) ==
  /\ dtOf[id] = NoDesc
  /\ LET that == [t |-> "target",
                  targets |-> asArray(elmts),
                  effect |-> options.effect,
                  accepts |-> options.accepts,
                  onEnter |-> OrElse(options.onEnter, Null),
                  onLeave |-> OrElse(options.onLeave, Null),
                  onDrop |-> OrElse(options.onDrop, Null)]
     IN /\ dtOf' = [dtOf EXCEPT ![id] = that]
        /\ listeners' = setupTargetEvents(that, id, listeners)
        /\ last' = Ran("createTarget", id, "-",
                       [src |-> elmts, options |-> options],
                       current, <<>>, FALSE, "none")
  /\ gesture' = NoEvent(gesture)
  /\ UNCHANGED <<current, dsOf, draggable, transfer, encIn, encOut>>

-----------------------------------------------------------------------------
(* The handlers.  Each is the function from what the handler reads (its     *)
(* descriptor, the event's target, the registry, the carrier) to what it   *)
(* leaves behind: the registry, the carrier, the callbacks it invoked in   *)
(* order, whether it called preventDefault, and the error it threw.        *)

Outcome(reg, tr, calls, prevented, threw) ==
  [current |-> reg, transfer |-> tr, calls |-> calls, prevented |-> prevented,
   threw |-> threw]

\* the 'dragstart' listener populating the carrier before it writes the
\* registry
dragstartPopulatesFirst(ds, id, target, reg, tr) ==
  LET reg1 == [source |-> id, element |-> target]
      set == setSourceProperties(ds, tr)
      calls == IF Falsy(ds.onStart) THEN <<>>
               ELSE <<Call(ds.onStart, "onStart", id, <<target>>, reg1)>>
  IN IF set.threw # "none"
     THEN Outcome(reg, set.tr, <<>>, FALSE, set.threw)
     ELSE Outcome(reg1, set.tr, calls, FALSE, "none")

\* the 'dragstart' listener of setupSourceEvents: the registry is written,
\* then the carrier is populated, then onStart is called; an exception of
\* setSourceProperties leaves the registry written
dragstart(ds, id, target, reg, tr) ==
  LET reg1 == [source |-> id, element |-> target]
      set == setSourceProperties(ds, tr)
      calls == IF Falsy(ds.onStart) THEN <<>>
               ELSE <<Call(ds.onStart, "onStart", id, <<target>>, reg1)>>
  IN IF set.threw # "none"
     THEN Outcome(reg1, set.tr, <<>>, FALSE, set.threw)
     ELSE Outcome(reg1, set.tr, calls, FALSE, "none")

\* the 'dragend' listener emptying current.source and leaving current.element
dragendKeepsElement(ds, id, target, reg, tr) ==
  IF reg.source # "null"
  THEN Outcome([reg EXCEPT !.source = "null"], tr,
               IF Falsy(ds.onCancel) THEN <<>>
               ELSE <<Call(ds.onCancel, "onCancel", id, <<target>>, reg)>>,
               FALSE, "none")
  ELSE Outcome(reg, tr, <<>>, FALSE, "none")

\* the 'dragend' listener invoking onCancel and leaving the registry as it is
dragendNoClear(ds, id, target, reg, tr) ==
  IF reg.source # "null"
  THEN Outcome(reg, tr,
               IF Falsy(ds.onCancel) THEN <<>>
               ELSE <<Call(ds.onCancel, "onCancel", id, <<target>>, reg)>>,
               FALSE, "none")
  ELSE Outcome(reg, tr, <<>>, FALSE, "none")

\* the 'dragend' listener of setupSourceEvents
dragend(ds, id, target, reg, tr) ==
  IF reg.source # "null"
  THEN Outcome(Idle, tr,
               IF Falsy(ds.onCancel) THEN <<>>
               ELSE <<Call(ds.onCancel, "onCancel", id, <<target>>, reg)>>,
               FALSE, "none")
  ELSE Outcome(reg, tr, <<>>, FALSE, "none")

\* the 'dragenter' listener calling preventDefault whatever onEnter returns
dragenterAlways(dt, id, target, reg, tr, ret) ==
  LET tr1 == setTargetProperties(dt, tr)
  IN IF Falsy(dt.onEnter)
     THEN Outcome(reg, tr1, <<>>, TRUE, "none")
     ELSE Outcome(reg, tr1, <<Call(dt.onEnter, "onEnter", id, <<target>>, reg)>>,
                  TRUE, "none")

\* the 'dragenter' listener of setupTargetEvents; ret is what onEnter returns
dragenter(dt, id, target, reg, tr, ret) ==
  LET tr1 == setTargetProperties(dt, tr)
  IN IF Falsy(dt.onEnter)
     THEN Outcome(reg, tr1, <<>>, TRUE, "none")
     ELSE Outcome(reg, tr1, <<Call(dt.onEnter, "onEnter", id, <<target>>, reg)>>,
                  ~Falsy(ret), "none")

\* the 'dragleave' listener emptying the registry after onLeave
dragleaveClears(dt, id, target, reg, tr) ==
  IF ~Falsy(dt.onLeave)
  THEN Outcome(Idle, tr, <<Call(dt.onLeave, "onLeave", id, <<target>>, reg)>>,
               FALSE, "none")
  ELSE Outcome(Idle, tr, <<>>, FALSE, "none")

\* the 'dragleave' listener of setupTargetEvents
dragleave(dt, id, target, reg, tr) ==
  IF ~Falsy(dt.onLeave)
  THEN Outcome(reg, tr, <<Call(dt.onLeave, "onLeave", id, <<target>>, reg)>>,
               FALSE, "none")
  ELSE Outcome(reg, tr, <<>>, FALSE, "none")

\* the 'dragover' listener calling preventDefault only while a source is
\* registered
dragoverWhileDragging(dt, id, target, reg, tr) ==
  Outcome(reg, tr, <<>>, reg.source # "null", "none")

\* the 'dragover' listener of setupTargetEvents
dragover(dt, id, target, reg, tr) ==
  Outcome(reg, tr, <<>>, TRUE, "none")

\* obj[key] = value.  The file is strict code ('use strict' is its first
\* statement), where creating a property on a string throws a TypeError.
putProp(obj, key, value) ==
  IF obj.t # "object" THEN Throw("TypeError")
  ELSE Return([t |-> "object",
               v |-> setData([items |-> obj.v], key, value).items])

\* the forEach over tr.types of the 'drop' listener, from type i on
RECURSIVE fillPayload(_, _, _)
fillPayload(payload, tr, i) ==
  IF i > Len(types(tr)) THEN Return(payload)
  ELSE LET r == putProp(payload, types(tr)[i], getData(tr, types(tr)[i]))
       IN IF r.threw # "none" THEN r ELSE fillPayload(r.val, tr, i + 1)

\* the payload of the 'drop' listener: the value of the only type, or an
\* empty object, and then one property per type
buildPayload(tr) ==
  fillPayload(IF Len(types(tr)) = 1
              THEN Str(getData(tr, types(tr)[1]))
              ELSE [t |-> "object", v |-> <<>>],
              tr, 1)

\* the 'drop' listener emptying the registry between the two onDrop calls
dropClearsEarly(dt, id, target, reg, tr, srcs) ==
  IF Falsy(dt.onDrop) THEN Outcome(reg, tr, <<>>, FALSE, "none")
  ELSE
    LET payload == buildPayload(tr)
        rec == [fromElement |-> reg.element, toElement |-> target,
                data |-> payload.val]
        c1 == Call(dt.onDrop, "onDrop", id, <<rec>>, reg)
    IN IF payload.threw # "none"
       THEN Outcome(reg, tr, <<>>, FALSE, payload.threw)
       ELSE IF reg.source = "null"
       THEN Outcome(reg, tr, <<c1>>, FALSE, "TypeError")
       ELSE IF Falsy(srcs[reg.source].onDrop)
       THEN Outcome(Idle, tr, <<c1>>, FALSE, "none")
       ELSE Outcome(Idle, tr,
                    <<c1, Call(srcs[reg.source].onDrop, "onDrop", reg.source,
                               <<rec>>, Idle)>>,
                    FALSE, "none")

\* the 'drop' listener of setupTargetEvents; srcs are the source descriptors
drop(dt, id, target, reg, tr, srcs) ==
  IF Falsy(dt.onDrop) THEN Outcome(reg, tr, <<>>, FALSE, "none")
  ELSE
    LET payload == buildPayload(tr)
        rec == [fromElement |-> reg.element, toElement |-> target,
                data |-> payload.val]
        c1 == Call(dt.onDrop, "onDrop", id, <<rec>>, reg)
    IN IF payload.threw # "none"
       THEN Outcome(reg, tr, <<>>, FALSE, payload.threw)
       ELSE IF reg.source = "null"
       \* reading current.source.onDrop of null
       THEN Outcome(reg, tr, <<c1>>, FALSE, "TypeError")
       ELSE IF Falsy(srcs[reg.source].onDrop)
       THEN Outcome(Idle, tr, <<c1>>, FALSE, "none")
       ELSE Outcome(Idle, tr,
                    <<c1, Call(srcs[reg.source].onDrop, "onDrop", reg.source,
                               <<rec>>, reg)>>,
                    FALSE, "none")

-----------------------------------------------------------------------------
(* The platform delivering an event to one listener *)

\* the invocations of callback cb among calls
CountOf(calls, cb) == Cardinality({i \in 1..Len(calls) : calls[i].cb = cb})

AtMost(n) == IF n > MaxCount THEN MaxCount ELSE n

OverAtMost(n) == IF n > MaxOver THEN MaxOver ELSE n

\* the gesture history g with the invocations and the dragover events of the
\* listener that ran counted in
Counted(g, type, out) ==
  IF g.shape \in {"none", "X"} THEN g
  ELSE [g EXCEPT !.drops = AtMost(@ + CountOf(out.calls, "onDrop")),
                 !.cancels = AtMost(@ + CountOf(out.calls, "onCancel")),
                 !.overs = IF type = "dragover" THEN OverAtMost(@ + 1) ELSE @,
                 !.suppressed = IF type = "dragover" /\ out.prevented
                                THEN OverAtMost(@ + 1) ELSE @]

Deliver(type, id, e, arg, out, g) ==
  /\ current' = out.current
  /\ transfer' = out.transfer
  /\ last' = Ran(type, id, e, arg, current, out.calls, out.prevented,
                 out.threw)
  /\ gesture' = Counted(g, type, out)
  /\ UNCHANGED <<dsOf, dtOf, draggable, listeners, encIn, encOut>>

DragStart(id, e) ==
  /\ <<e, "dragstart", id>> \in listeners
  /\ Deliver("dragstart", id, e, Undefined,
             dragstart(dsOf[id], id, e, current, FreshTransfer),
             AfterStart(gesture, id, e))

DragEnd(id, e) ==
  /\ <<e, "dragend", id>> \in listeners
  /\ Deliver("dragend", id, e, Undefined,
             dragend(dsOf[id], id, e, current, transfer),
             AfterEnd(gesture, id, e))

DragEnter(id, e, ret) ==
  /\ <<e, "dragenter", id>> \in listeners
  /\ Deliver("dragenter", id, e,
             IF Falsy(dtOf[id].onEnter) THEN Undefined ELSE ret,
             dragenter(dtOf[id], id, e, current, transfer, ret),
             AfterHover(gesture))

DragLeave(id, e) ==
  /\ <<e, "dragleave", id>> \in listeners
  /\ Deliver("dragleave", id, e, Undefined,
             dragleave(dtOf[id], id, e, current, transfer),
             AfterHover(gesture))

DragOver(id, e) ==
  /\ <<e, "dragover", id>> \in listeners
  /\ Deliver("dragover", id, e, Undefined,
             dragover(dtOf[id], id, e, current, transfer),
             AfterHover(gesture))

Drop(id, e) ==
  /\ <<e, "drop", id>> \in listeners
  /\ Deliver("drop", id, e, Undefined,
             drop(dtOf[id], id, e, current, transfer, dsOf),
             AfterDrop(gesture))

-----------------------------------------------------------------------------
(* The host's arguments *)

Callbacks == {Undefined, Fn("f")}

\* what an onEnter callback returns
Returns == {Bool(TRUE), Num(1), Bool(FALSE)}

\* the data option: absent, one bare string, two items of different types
DataArgs ==
  {Undefined, Str(hello), Arr(<<Item(text, <<"a">>), Item(custom, <<"b">>)>>)}

\* the options of a source: every choice of callbacks and data
SourceOptions ==
  [effects : {Undefined}, data : DataArgs, view : {Undefined},
   onStart : Callbacks, onCancel : Callbacks, onDrop : Callbacks]

\* the options of one of two sources: all callbacks or none, the effects
\* absent or a number
OtherOptions ==
  {[effects |-> eff, data |-> Undefined, view |-> Undefined,
    onStart |-> cb, onCancel |-> cb, onDrop |-> cb] :
     cb \in Callbacks, eff \in {Undefined, Num(42)}}

SourceArgs == {Elem("s1"), Arr(<<Elem("s1"), Elem("s2")>>)}
OtherArgs == {Elem("s3")}

TargetOptions ==
  [effect : {Str(copy)}, accepts : {Undefined},
   onEnter : Callbacks, onLeave : Callbacks, onDrop : Callbacks]

TargetArgs == {Elem("t1"), Arr(<<Elem("t1"), Elem("t2")>>)}

-----------------------------------------------------------------------------
(* The specification of the page *)

PageInit ==
  /\ current = Idle
  /\ dsOf = [id \in SourceIds |-> NoDesc]
  /\ dtOf = [id \in TargetIds |-> NoDesc]
  /\ draggable = {}
  /\ listeners = {}
  /\ transfer = FreshTransfer
  /\ last = Ran("load", "-", "-", Undefined, Idle, <<>>, FALSE, "none")
  /\ gesture = NoGesture

Init ==
  /\ PageInit
  /\ encIn = Undefined
  /\ encOut = NotRun

Next ==
  \/ \E src \in SourceArgs, options \in SourceOptions :
       CreateSource("A", src, options)
  \/ \E id \in TargetIds, elmts \in TargetArgs, options \in TargetOptions :
       CreateTarget(id, elmts, options)
  \/ \E id \in SourceIds, e \in SrcElems : DragStart(id, e)
  \/ \E id \in SourceIds, e \in SrcElems : DragEnd(id, e)
  \/ \E id \in TargetIds, e \in TgtElems, ret \in Returns :
       DragEnter(id, e, ret)
  \/ \E id \in TargetIds, e \in TgtElems : DragLeave(id, e)
  \/ \E id \in TargetIds, e \in TgtElems : DragOver(id, e)
  \/ \E id \in TargetIds, e \in TgtElems : Drop(id, e)

Spec == Init /\ [][Next]_vars

-----------------------------------------------------------------------------
(* The specification of a page with two sources *)

NextTwo ==
  \/ \E options \in OtherOptions : CreateSource("A", Elem("s1"), options)
  \/ \E src \in OtherArgs, options \in OtherOptions :
       CreateSource("B", src, options)
  \/ \E id \in TargetIds, elmts \in TargetArgs, options \in TargetOptions :
       CreateTarget(id, elmts, options)
  \/ \E id \in SourceIds, e \in SrcElems : DragStart(id, e)
  \/ \E id \in SourceIds, e \in SrcElems : DragEnd(id, e)
  \/ \E id \in TargetIds, e \in TgtElems, ret \in Returns :
       DragEnter(id, e, ret)
  \/ \E id \in TargetIds, e \in TgtElems : DragLeave(id, e)
  \/ \E id \in TargetIds, e \in TgtElems : DragOver(id, e)
  \/ \E id \in TargetIds, e \in TgtElems : Drop(id, e)

SpecTwo == Init /\ [][NextTwo]_vars

-----------------------------------------------------------------------------
(* The specification of one source under every choice of options *)

EffectsArgs ==
  {Undefined, Str(move), Str(copy), Arr(<<Str(move), Str(copy)>>), Num(42)}

ViewArgs == {Undefined, View("v1", Num(3), Undefined)}

FullSourceOptions ==
  [effects : EffectsArgs,
   data : DataArgs \cup {Arr(<<Item(text, <<"a">>), Str(hello)>>),
                        Arr(<<Str(hello), Null>>)},
   view : ViewArgs,
   onStart : Callbacks, onCancel : Callbacks, onDrop : Callbacks]

NextSource ==
  \/ \E src \in SourceArgs, options \in FullSourceOptions :
       CreateSource("A", src, options)
  \/ \E e \in SrcElems : DragStart("A", e)
  \/ \E e \in SrcElems : DragEnd("A", e)

SpecSource == Init /\ [][NextSource]_vars

-----------------------------------------------------------------------------
(* The specification of a target receiving data dragged from outside the   *)
(* page: no source is constructed and the registry is never written         *)

files == <<"F", "i", "l", "e", "s">>

\* the carriers of drags started outside the page: a dragged file, a
\* selection of another application under two types, and one without types
OutsideCarriers ==
  {[FreshTransfer EXCEPT !.effectAllowed = all,
                         !.items = <<[type |-> files, value |-> <<>>]>>],
   [FreshTransfer EXCEPT !.effectAllowed = all,
                         !.items = <<[type |-> text, value |-> <<"a">>],
                                     [type |-> custom, value |-> <<"b">>]>>],
   [FreshTransfer EXCEPT !.effectAllowed = all]}

\* a drag that starts outside every wrapped source: the platform makes the
\* carrier and no listener attached by createSource runs
DragFromOutside(tr) ==
  /\ current = Idle
  /\ transfer' = tr
  /\ last' = Ran("dragfromoutside", "-", "-", Undefined, current, <<>>,
                 FALSE, "none")
  /\ gesture' = NoEvent(gesture)
  /\ UNCHANGED <<current, dsOf, dtOf, draggable, listeners, encIn, encOut>>

NextOutside ==
  \/ \E id \in TargetIds, elmts \in TargetArgs, options \in TargetOptions :
       CreateTarget(id, elmts, options)
  \/ \E tr \in OutsideCarriers : DragFromOutside(tr)
  \/ \E id \in TargetIds, e \in TgtElems, ret \in Returns :
       DragEnter(id, e, ret)
  \/ \E id \in TargetIds, e \in TgtElems : DragLeave(id, e)
  \/ \E id \in TargetIds, e \in TgtElems : DragOver(id, e)
  \/ \E id \in TargetIds, e \in TgtElems : Drop(id, e)

SpecOutside == Init /\ [][NextOutside]_vars

-----------------------------------------------------------------------------
(* The specification of a host that assigns the callback fields of the      *)
(* descriptors createSource and createTarget returned.  The dragover        *)
(* listener reads no callback and is left out.                              *)

\* what the host assigns: null to remove a callback, or a function that no
\* descriptor is constructed with
Assigned == {Null, Fn("g")}

\* ds[field] = fn by the host, on the descriptor createSource returned
AssignSource(id, field, fn) ==
  /\ dsOf[id] # NoDesc
  /\ dsOf' = [dsOf EXCEPT ![id] = [@ EXCEPT ![field] = fn]]
  /\ last' = Ran("assign", id, field, fn, current, <<>>, FALSE, "none")
  /\ gesture' = NoEvent(gesture)
  /\ UNCHANGED <<current, dtOf, draggable, listeners, transfer, encIn,
                 encOut>>

\* dt[field] = fn by the host, on the descriptor createTarget returned
AssignTarget(id, field, fn) ==
  /\ dtOf[id] # NoDesc
  /\ dtOf' = [dtOf EXCEPT ![id] = [@ EXCEPT ![field] = fn]]
  /\ last' = Ran("assign", id, field, fn, current, <<>>, FALSE, "none")
  /\ gesture' = NoEvent(gesture)
  /\ UNCHANGED <<current, dsOf, draggable, listeners, transfer, encIn,
                 encOut>>

\* the options of the source and the target: all callbacks or none, data of
\* two types
LateSourceOptions ==
  {[effects |-> Undefined,
    data |-> Arr(<<Item(text, <<"a">>), Item(custom, <<"b">>)>>),
    view |-> Undefined, onStart |-> f, onCancel |-> f, onDrop |-> f] :
     f \in Callbacks}

LateTargetOptions ==
  {[effect |-> Str(copy), accepts |-> Undefined,
    onEnter |-> f, onLeave |-> f, onDrop |-> f] : f \in Callbacks}

NextLate ==
  \/ \E options \in LateSourceOptions :
       CreateSource("A", Elem("s1"), options)
  \/ \E options \in LateTargetOptions :
       CreateTarget("T", Elem("t1"), options)
  \/ \E field \in {"onStart", "onCancel", "onDrop"}, fn \in Assigned :
       AssignSource("A", field, fn)
  \/ \E field \in {"onEnter", "onLeave", "onDrop"}, fn \in Assigned :
       AssignTarget("T", field, fn)
  \/ \E e \in SrcElems : DragStart("A", e)
  \/ \E e \in SrcElems : DragEnd("A", e)
  \/ \E e \in TgtElems, ret \in Returns : DragEnter("T", e, ret)
  \/ \E e \in TgtElems : DragLeave("T", e)
  \/ \E e \in TgtElems : Drop("T", e)

SpecLate == Init /\ [][NextLate]_vars

-----------------------------------------------------------------------------
(* The specification of the effect encoder on its own *)

EffectNames == {Str(move), Str(copy), Str(link)}

\* the arrays of effect names of length at most n
RECURSIVE ArraysUpTo(_)
ArraysUpTo(n) ==
  IF n = 0 THEN {<<>>}
  ELSE LET shorter == ArraysUpTo(n - 1)
       IN shorter \cup {Append(a, x) : a \in shorter, x \in EffectNames}

EffectInputs ==
  {Undefined, Null, Str(<<>>), Str(bogus), Str(none), Str(all),
   Num(0), Num(42), Bool(FALSE), Bool(TRUE)}
    \cup EffectNames \cup {Arr(a) : a \in ArraysUpTo(MaxLen)}

InitEnc ==
  /\ PageInit
  /\ encIn \in EffectInputs
  /\ encOut = NotRun

\* the host calls the encoder on the input
Encode ==
  /\ encOut = NotRun
  /\ encOut' = createEffectString(encIn)
  /\ UNCHANGED <<current, dsOf, dtOf, draggable, listeners, transfer, last,
                 gesture, encIn>>

\* the host takes the next input
Pick(x) ==
  /\ encOut # NotRun
  /\ encIn' = x
  /\ encOut' = NotRun
  /\ UNCHANGED <<current, dsOf, dtOf, draggable, listeners, transfer, last,
                 gesture>>

NextEnc ==
  \/ Encode
  \/ \E x \in EffectInputs : Pick(x)

SpecEnc == InitEnc /\ [][NextEnc]_vars

-----------------------------------------------------------------------------
(* The claims *)

\* both fields of a registry value are empty, or both are populated
Paired(reg) == (reg.source = "null") <=> (reg.element = "null")

\* the registry a started gesture holds
Dragging(g) == [source |-> g.src, element |-> g.elem]

\* C1: in every reachable state, and at every invocation of a host callback,
\* the registry's source and element are both empty or both populated.
C1_RegistryPaired ==
  /\ Paired(current)
  /\ \A i \in 1..Len(last.calls) : Paired(last.calls[i].reg)

\* a drop that invoked both onDrop callbacks on a populated registry and
\* left it empty
C1_Witness ==
  /\ last.op = "drop"
  /\ Len(last.calls) = 2
  /\ last.calls[2].reg.source # "null"
  /\ last.calls[2].reg.element # "null"
  /\ current = Idle

\* C2: after a dragstart on a source and then a drop on a target (both with
\* an onDrop callback), the target's onDrop and then the source's onDrop
\* have each been invoked once, with the same payload, and the registry is
\* empty.
C2_DropNotifiesBoth ==
  (/\ gesture.shape = "SD"
   /\ last.op = "drop"
   /\ ~Falsy(dtOf[last.who].onDrop)
   /\ ~Falsy(dsOf[gesture.src].onDrop))
  => /\ last.threw = "none"
     /\ Len(last.calls) = 2
     /\ last.calls[1].cb = "onDrop" /\ last.calls[1].of = last.who
     /\ last.calls[2].cb = "onDrop" /\ last.calls[2].of = gesture.src
     /\ last.calls[1].args[1].data = last.calls[2].args[1].data
     /\ gesture.drops = 2
     /\ current = Idle

\* C3: after a dragstart and then the dragend of the same element, with only
\* enter, over and leave events between them, onCancel has been invoked once
\* with the dragged element (when the source has one), no onDrop has been
\* invoked, and the registry is empty.
C3_CancelOnce ==
  gesture.shape = "SE"
  => /\ last.op = "dragend"
     /\ last.threw = "none"
     /\ last.calls =
          IF Falsy(dsOf[gesture.src].onCancel) THEN <<>>
          ELSE <<Call(dsOf[gesture.src].onCancel, "onCancel", gesture.src, <<gesture.elem>>,
                      Dragging(gesture))>>
     /\ gesture.cancels = Len(last.calls)
     /\ gesture.drops = 0
     /\ current = Idle

\* a cancelled gesture of a source with an onCancel callback
C3_Witness ==
  /\ gesture.shape = "SE"
  /\ gesture.cancels = 1
  /\ last.op = "dragend"
  /\ current = Idle

\* C4: when a drop was delivered to a target before the dragend of the
\* dragged element, the dragend handler invokes nothing, whatever the
\* target's callbacks (stated for carriers that do not hold exactly one type).
C4_EndAfterDropSilent ==
  (gesture.shape = "SDE" /\ Len(types(transfer)) # 1)
  => /\ last.calls = <<>>
     /\ gesture.cancels = 0

\* C5: a drop on a target while the registry holds a source with an onDrop
\* callback invokes that callback exactly once with the drop record, whether
\* or not the target has an onDrop callback (stated for carriers that do not
\* hold exactly one type).
C5_SourceDropNotified ==
  (/\ last.op = "drop"
   /\ last.before.source # "null"
   /\ Len(types(transfer)) # 1
   /\ ~Falsy(dsOf[last.before.source].onDrop))
  => /\ Cardinality({i \in 1..Len(last.calls) :
                       /\ last.calls[i].cb = "onDrop"
                       /\ last.calls[i].of = last.before.source}) = 1
     /\ \A i \in 1..Len(last.calls) :
          last.calls[i].args[1] =
            [fromElement |-> last.before.element, toElement |-> last.elem,
             data |-> buildPayload(transfer).val]

\* C6: after dragstart of a source A, dragstart of another source B and
\* dragend of A, the registry still holds B's gesture and A's dragend has
\* invoked nothing; the dragend of B that follows invokes B's onCancel (when
\* it has one) and empties the registry.
C6_EndOfOtherSource ==
  /\ gesture.shape = "I"
       => /\ last.op = "dragend"
          /\ last.who = gesture.over.source
          /\ last.calls = <<>>
          /\ current = Dragging(gesture)
  /\ gesture.shape = "IE"
       => /\ last.calls =
               IF Falsy(dsOf[gesture.src].onCancel) THEN <<>>
               ELSE <<Call(dsOf[gesture.src].onCancel, "onCancel", gesture.src, <<gesture.elem>>,
                           Dragging(gesture))>>
          /\ current = Idle

C8_NoneOrName ==
  encOut # NotRun
  => /\ (encIn.t \in {"undefined", "null"} \/ encIn = Arr(<<>>))
          => encOut = Return(Str(none))
     /\ encIn \in EffectNames => encOut = Return(encIn)
     /\ (encIn.t = "array" /\ Len(encIn.v) = 1) => encOut = Return(encIn.v[1])

\* C9: the encoder returns "all" for every ordering of move, copy and link.
C9_AllOrderings ==
  (/\ encOut # NotRun
   /\ encIn.t = "array"
   /\ Len(encIn.v) = 3
   /\ Range(encIn.v) = EffectNames)
  => encOut = Return(Str(all))

\* C10: for two distinct effects in either order the encoder returns the
\* smaller name followed by the other with its first character in upper case.
C10_SortedCamelCase ==
  (/\ encOut # NotRun
   /\ encIn.t = "array"
   /\ Len(encIn.v) = 2
   /\ encIn.v[1] # encIn.v[2])
  => encOut = camelCase(sort(encIn.v)[1], sort(encIn.v)[2])

\* C11: the encoder fails for every input that is neither absent, a string
\* nor a collection, such as the numbers 42 and 0 and the boolean false.
C11_OtherShapesFail ==
  (encOut # NotRun /\ encIn.t \in {"number", "boolean"})
  => encOut.threw # "none"

\* C12: a createSource that fails in the effect encoder leaves the draggable
\* marks, the attached listeners, the descriptors and the registry as they
\* were.
C12_NoPartialRegistration ==
  [][(last'.op = "createSource" /\ last'.threw # "none")
     => /\ draggable' = draggable
        /\ listeners' = listeners
        /\ dsOf' = dsOf
        /\ current' = current]_vars

\* a createSource failing on its effects while a gesture of an earlier
\* source is under way
C12_Witness ==
  /\ last.op = "createSource"
  /\ last.threw = "Error"
  /\ last.arg.options.effects = Num(42)
  /\ dsOf[last.who] = NoDesc
  /\ current.source = "A"
  /\ draggable # {}

\* C13: a dragenter on a target without an onEnter callback calls
\* preventDefault; on a target with one it invokes onEnter once with the
\* entered element and calls preventDefault exactly when the callback returns
\* a truthy value.
C13_EnterAcceptance ==
  last.op = "dragenter"
  => IF Falsy(dtOf[last.who].onEnter)
     THEN last.calls = <<>> /\ last.prevented
     ELSE /\ last.calls = <<Call(dtOf[last.who].onEnter, "onEnter", last.who,
                                <<last.elem>>, current)>>
          /\ last.prevented <=> ~Falsy(last.arg)

\* a dragenter whose onEnter returned false and that did not call
\* preventDefault
C13_Witness ==
  /\ last.op = "dragenter"
  /\ ~Falsy(dtOf[last.who].onEnter)
  /\ last.arg = Bool(FALSE)
  /\ Len(last.calls) = 1
  /\ ~last.prevented

\* C14: after a dragenter on a target the carrier's dropEffect is the
\* target's effect.
C14_DropEffectWritten ==
  last.op = "dragenter" => transfer.dropEffect = dtOf[last.who].effect.v

\* C15: a drop on a target with onDrop, during a gesture of a source and
\* with a carrier holding at least one type, completes without an exception
\* and hands onDrop a record whose data is the string under the only type of
\* the carrier, or the mapping from every type of the carrier to its string
\* when there are two or more.
C15_PayloadShape ==
  (/\ last.op = "drop"
   /\ ~Falsy(dtOf[last.who].onDrop)
   /\ last.before.source # "null"
   /\ Len(types(transfer)) >= 1)
  => /\ last.threw = "none"
     /\ Len(last.calls) >= 1
     /\ last.calls[1].args[1].data =
          IF Len(types(transfer)) = 1
          THEN Str(getData(transfer, types(transfer)[1]))
          ELSE [t |-> "object", v |-> transfer.items]

\* C16: every dragover on a target calls preventDefault, whatever the
\* target's callbacks and the registry: of the dragover events of a gesture
\* all are suppressed.
C16_EveryOverSuppressed ==
  /\ last.op = "dragover" => last.prevented /\ last.threw = "none"
  /\ gesture.suppressed = gesture.overs

\* the second dragover of a gesture, suppressed like the first
C16_Witness ==
  /\ last.op = "dragover"
  /\ last.prevented
  /\ gesture.shape = "S"
  /\ gesture.overs = MaxOver
  /\ gesture.suppressed = MaxOver

\* C17 as stated: the dragstart listener populates the carrier before it
\* writes the registry, so whenever a dragstart has written the registry the
\* carrier holds the source's effect token and every data item of the source,
\* and onStart, if invoked, saw the registry holding the source and the
\* element.
C17_CarrierThenRegistry ==
  (/\ last.op = "dragstart"
   /\ current = [source |-> last.who, element |-> last.elem])
  => LET ds == dsOf[last.who]
     IN /\ transfer.effectAllowed = ds.effects.v
        /\ \A i \in 1..Len(ds.data) :
             /\ ds.data[i].t \notin {"null", "undefined"}
             /\ (IF TypeOf(ds.data[i]) = "string" THEN text
                 ELSE ds.data[i].type) \in Range(types(transfer))
        /\ \A i \in 1..Len(last.calls) : last.calls[i].reg = current

\* C17 amended: the dragstart listener writes the registry first, so after
\* every dragstart the registry holds the source and the element, also when
\* populating the carrier then fails; onStart is invoked last, only when the
\* carrier has been populated, once if the source has it, and it sees the
\* registry holding the source and the element.
C17_RegistryThenCarrier ==
  last.op = "dragstart"
  => LET ds == dsOf[last.who]
     IN /\ current = [source |-> last.who, element |-> last.elem]
        /\ transfer.effectAllowed = ds.effects.v
        /\ IF last.threw = "none"
           THEN /\ \A i \in 1..Len(ds.data) :
                     (IF TypeOf(ds.data[i]) = "string" THEN text
                      ELSE ds.data[i].type) \in Range(types(transfer))
                /\ last.calls =
                     IF Falsy(ds.onStart) THEN <<>>
                     ELSE <<Call(ds.onStart, "onStart", last.who,
                                 <<last.elem>>, current)>>
           ELSE /\ \E i \in 1..Len(ds.data) :
                     ds.data[i].t \in {"null", "undefined"}
                /\ last.calls = <<>>

\* a dragstart of a source with onStart whose second data item is null: the
\* first item is in the carrier, the listener threw, onStart was not invoked,
\* and the registry holds the source and the element
C17_Witness ==
  /\ last.op = "dragstart"
  /\ last.threw = "TypeError"
  /\ ~Falsy(dsOf[last.who].onStart)
  /\ last.calls = <<>>
  /\ types(transfer) = <<text>>
  /\ last.before = Idle
  /\ current = [source |-> "A", element |-> "s2"]

\* C18: on a drop during a gesture, every onDrop invocation sees the registry
\* as it was before the drop, still holding the source and the element the
\* gesture started on, and receives a record whose fromElement is that element
\* and whose toElement is the element dropped on; the registry is empty
\* afterwards only if the listener completed, having invoked the target's
\* onDrop and then the source's onDrop if it has one.
C18_DeliveryBeforeClear ==
  (last.op = "drop" /\ last.before.source # "null")
  => /\ \A i \in 1..Len(last.calls) :
          /\ last.calls[i].reg = last.before
          /\ last.calls[i].reg.element # "null"
          /\ last.calls[i].args[1].fromElement = last.before.element
          /\ last.calls[i].args[1].toElement = last.elem
     /\ current \in {Idle, last.before}
     /\ current = Idle
        => /\ last.threw = "none"
           /\ Len(last.calls) >= 1
           /\ last.calls[1].cb = "onDrop" /\ last.calls[1].of = last.who
           /\ IF Falsy(dsOf[last.before.source].onDrop)
              THEN Len(last.calls) = 1
              ELSE /\ Len(last.calls) = 2
                   /\ last.calls[2].cb = "onDrop"
                   /\ last.calls[2].of = last.before.source

\* a drop on the second element of the target, of a gesture started on the
\* second element of the source: both callbacks got fromElement s2 and
\* toElement t2 while the registry held A and s2, and the registry is empty
C18_Witness ==
  /\ last.op = "drop"
  /\ last.before = [source |-> "A", element |-> "s2"]
  /\ last.elem = "t2"
  /\ Len(last.calls) = 2
  /\ last.calls[2].of = "A"
  /\ last.calls[2].args[1].fromElement = "s2"
  /\ last.calls[2].args[1].toElement = "t2"
  /\ last.calls[2].reg = last.before
  /\ current = Idle

\* C19: after a dragstart that completed, the carrier's effectAllowed is the
\* source's effect token, and the carrier holds, under the type of every data
\* item of the source (text for a plain string), the value of the last item
\* of that type.
C19_CarrierHoldsItems ==
  (last.op = "dragstart" /\ last.threw = "none")
  => LET data == dsOf[last.who].data
         key(d) == IF TypeOf(d) = "string" THEN text ELSE d.type
         val(d) == IF TypeOf(d) = "string" THEN d.v ELSE d.value
     IN /\ transfer.effectAllowed = dsOf[last.who].effects.v
        /\ \A i \in 1..Len(data) :
             /\ key(data[i]) \in Range(types(transfer))
             /\ (\A k \in (i + 1)..Len(data) : key(data[k]) # key(data[i]))
                => getData(transfer, key(data[i])) = val(data[i])

\* a dragstart of a source with effect move whose data is a text item "a"
\* followed by the plain string hello: the carrier holds hello under text
C19_Witness ==
  /\ last.op = "dragstart"
  /\ last.threw = "none"
  /\ dsOf[last.who].effects = Str(move)
  /\ dsOf[last.who].data = <<Item(text, <<"a">>), Str(hello)>>
  /\ transfer.effectAllowed = move
  /\ types(transfer) = <<text>>
  /\ getData(transfer, text) = hello

\* C20: a dragenter, dragover or dragleave leaves the registry as it was; a
\* step that changes the registry is a dragstart, a dragend or a drop; and a
\* dragleave changes nothing of the page or the carrier, does not call
\* preventDefault, and invokes onLeave with the element left exactly when
\* the target has that callback.
C20_HoverFrame ==
  [][/\ last'.op \in {"dragenter", "dragover", "dragleave"}
        => current' = current
     /\ current' # current => last'.op \in {"dragstart", "dragend", "drop"}
     /\ last'.op = "dragleave"
        => /\ transfer' = transfer
           /\ UNCHANGED <<dsOf, dtOf, draggable, listeners>>
           /\ ~last'.prevented
           /\ last'.threw = "none"
           /\ last'.calls =
                IF Falsy(dtOf[last'.who].onLeave) THEN <<>>
                ELSE <<Call(dtOf[last'.who].onLeave, "onLeave", last'.who,
                            <<last'.elem>>, current)>>]_vars

\* a dragleave during a gesture that invoked onLeave and left the registry
\* populated
C20_Witness ==
  /\ last.op = "dragleave"
  /\ Len(last.calls) = 1
  /\ last.calls[1].cb = "onLeave"
  /\ last.calls[1].args = <<last.elem>>
  /\ current.source # "null"
  /\ current = last.before

\* C21: every element a descriptor wraps carries all the listeners of the
\* descriptor, whatever callbacks it was constructed with, and every listener
\* takes the callback from the descriptor when the event occurs: the function
\* invoked is the one the field holds at the event, also when the host assigned
\* it after construction, and a field that is empty at the event, also when
\* the host emptied it after construction, is not invoked.
C21_LateBound ==
  /\ \A id \in SourceIds :
       dsOf[id] # NoDesc
       => \A e \in Range(dsOf[id].sources), type \in {"dragstart", "dragend"} :
            <<e.v, type, id>> \in listeners
  /\ \A id \in TargetIds :
       dtOf[id] # NoDesc
       => \A e \in Range(dtOf[id].targets),
             type \in {"dragenter", "dragleave", "dragover", "drop"} :
            <<e.v, type, id>> \in listeners
  /\ last.op \in {"dragstart", "dragend", "dragenter", "dragleave", "drop"}
     => LET desc(id) == IF id \in SourceIds THEN dsOf[id] ELSE dtOf[id]
            count(fn) == IF Falsy(fn) THEN 0 ELSE 1
        IN /\ \A i \in 1..Len(last.calls) :
                /\ last.calls[i].fn = desc(last.calls[i].of)[last.calls[i].cb]
                /\ ~Falsy(last.calls[i].fn)
           /\ (last.op = "dragstart" /\ last.threw = "none")
              => Len(last.calls) = count(dsOf[last.who].onStart)
           /\ (last.op = "dragend" /\ last.before.source # "null")
              => Len(last.calls) = count(dsOf[last.who].onCancel)
           /\ last.op = "dragenter"
              => Len(last.calls) = count(dtOf[last.who].onEnter)
           /\ last.op = "dragleave"
              => Len(last.calls) = count(dtOf[last.who].onLeave)
           /\ (last.op = "drop" /\ last.threw = "none")
              => Len(last.calls) =
                   IF Falsy(dtOf[last.who].onDrop) THEN 0
                   ELSE 1 + count(dsOf[last.before.source].onDrop)

\* a drop that invoked, as the target's and as the source's onDrop, the
\* function the host assigned to both descriptors after construction
C21_Witness ==
  /\ last.op = "drop"
  /\ Len(last.calls) = 2
  /\ last.calls[1].of = "T" /\ last.calls[1].fn = Fn("g")
  /\ last.calls[2].of = "A" /\ last.calls[2].fn = Fn("g")

\* C22: a drop of data dragged from outside the page on a target with onDrop,
\* the registry being empty and the carrier not holding exactly one type,
\* completes without an exception,
\* having invoked the target's onDrop once with a record whose fromElement
\* is empty and no callback of a source, and leaves the registry empty.
C22_OutsideDropHandled ==
  (/\ last.op = "drop"
   /\ last.before = Idle
   /\ transfer \in OutsideCarriers
   /\ ~Falsy(dtOf[last.who].onDrop)
   /\ Len(types(transfer)) # 1)
  => /\ last.threw = "none"
     /\ Len(last.calls) = 1
     /\ last.calls[1].cb = "onDrop"
     /\ last.calls[1].of = last.who
     /\ last.calls[1].args[1].fromElement = "null"
     /\ last.calls[1].args[1].toElement = last.elem
     /\ current = Idle

====
